---- MODULE Spec2Model ----
(***************************************************************************)
(* Model of models/database.py: the table-name derivation of Base, the     *)
(* process-wide AsyncDatabaseSession holder `db`, and the generic          *)
(* AbstractClass operations (create/update/get/count/delete/filter/...)    *)
(* that run on the single shared session.                                  *)
(*                                                                         *)
(* The database library is modelled at the granularity of one call on the  *)
(* session (execute, commit, rollback, refresh): each awaited call is one  *)
(* atomic step, and the code between two awaits belongs to the step that   *)
(* follows it.                                                             *)
(***************************************************************************)
EXTENDS Integers, Sequences, FiniteSets, TLC

(* ------------------------------ bounds -------------------------------- *)
\* primary keys are 1..MaxId
MaxId == 2
\* generic type names have at most MaxLen characters
MaxLen == 3
\* how many times the holder may be (re-)initialised in SpecHolder
MaxInit == 2

(* ------------------------- table name (Base) --------------------------- *)
UpperChars == {"A", "Y", "U", "C"}
\* characters the generic names are drawn from
Alphabet == {"A", "Y", "b", "y"}

IsUpper(ch) == ch \in UpperChars

ToLowerChar(ch) ==
  CASE ch = "A" -> "a"
    [] ch = "Y" -> "y"
    [] ch = "U" -> "u"
    [] ch = "C" -> "c"
    [] OTHER -> ch

RECURSIVE LowerStr(_)
LowerStr(s) ==
  IF s = <<>> THEN <<>> ELSE <<ToLowerChar(Head(s))>> \o LowerStr(Tail(s))

EndsWithY(s) == Len(s) > 0 /\ s[Len(s)] = "y"

\* a mutation of the loop body: the capital test is dropped
LoopBodyNoUnderscore(acc, ch) == Append(acc, ch)

\* lines 18-20: one iteration of `for i in self.__name__[1:]`
LoopBody(acc, ch) ==
  IF IsUpper(ch) THEN Append(Append(acc, "_"), ch) ELSE Append(acc, ch)

\* lines 23-25
Pluralize(s) ==
  IF EndsWithY(s) THEN SubSeq(s, 1, Len(s) - 1) \o <<"i", "e", "s">>
  ELSE Append(s, "s")

UserAccount == <<"U", "s", "e", "r", "A", "c", "c", "o", "u", "n", "t">>
Category == <<"C", "a", "t", "e", "g", "o", "r", "y">>

RECURSIVE SeqsUpTo(_)
SeqsUpTo(n) ==
  IF n = 0 THEN {<<>>}
  ELSE LET prev == SeqsUpTo(n - 1)
       IN prev \cup {Append(s, ch) : s \in {p \in prev : Len(p) = n - 1}, ch \in Alphabet}

\* the type names the derivation is run on
TypeNames == (SeqsUpTo(MaxLen) \ {<<>>}) \cup {UserAccount, Category}

(* ------------------------------ state ---------------------------------- *)
VARIABLES
  tn,            \* Base.__tablename__: [cls, acc, i, pc, out]
  db_session,    \* identity of db._session
  db_engine,     \* identity of db._engine
  schema,        \* TRUE when the tables of Base.metadata exist
  table,         \* the committed rows: id -> val, or NoRow
  view,          \* the rows as the session's open transaction sees them
  identity_map,  \* the session's loaded entities: id -> val, or NoRow
  seq,           \* next value of the primary-key sequence
  inactive,      \* TRUE from a failed commit until the rollback that follows it
  pc,            \* per caller: the call on the session it awaits next
  op,            \* per caller: the operation it is in, with its arguments
  obj,           \* per caller: object_ of create
  ret,           \* per caller: what the operation returned or raised
  hist,          \* per caller: what was stored when the operation was called,
                 \* and the error the database layer raised during it
  used,          \* per caller: the session its last call ran on
  serialized     \* TRUE when callers are serialized externally

vars == <<tn, db_session, db_engine, schema, table, view, identity_map, seq, inactive,
          pc, op, obj, ret, hist, used, serialized>>

holderVars == <<db_session, db_engine>>
storeVars == <<schema, table, view, identity_map, seq, inactive>>
callerVars == <<pc, op, obj, ret, hist, used>>

(* --------------------------- table name steps --------------------------- *)
TnStart(name) == [cls |-> name, acc |-> <<>>, i |-> 0, pc |-> "first", out |-> <<>>]

\* line 16: __name = self.__name__[:1]
NameFirst ==
  /\ tn.pc = "first"
  /\ tn' = [tn EXCEPT !.acc = SubSeq(tn.cls, 1, 1), !.i = 2, !.pc = "loop"]
  /\ UNCHANGED <<holderVars, storeVars, callerVars, serialized>>

\* lines 17-20: the loop over self.__name__[1:]
NameLoop ==
  /\ tn.pc = "loop"
  /\ tn.i <= Len(tn.cls)
  /\ tn' = [tn EXCEPT !.acc = LoopBody(tn.acc, tn.cls[tn.i]), !.i = tn.i + 1]
  /\ UNCHANGED <<holderVars, storeVars, callerVars, serialized>>

\* line 21: __name = __name.lower()
NameLower ==
  /\ tn.pc = "loop"
  /\ tn.i > Len(tn.cls)
  /\ tn' = [tn EXCEPT !.acc = LowerStr(tn.acc), !.pc = "plural"]
  /\ UNCHANGED <<holderVars, storeVars, callerVars, serialized>>

\* lines 23-25: the "y" rule and the final "s"
NamePlural ==
  /\ tn.pc = "plural"
  /\ tn' = [tn EXCEPT !.out = Pluralize(tn.acc), !.pc = "done"]
  /\ UNCHANGED <<holderVars, storeVars, callerVars, serialized>>

NextName == NameFirst \/ NameLoop \/ NameLower \/ NamePlural

(* ----------------------------- the store -------------------------------- *)
Callers == {"c1", "c2"}
Ids == 1 .. MaxId
\* the id of an entity that was never flushed (None)
NoId == 0
Vals == {"a", "b"}
NoRow == "NoRow"
NoVal == "-"

Entity(i, v) == [id |-> i, val |-> v]
NoEnt == Entity(NoId, NoVal)
EmptyRows == [i \in Ids |-> NoRow]

\* the rows of a table as entities
Rows(t) == {Entity(i, t[i]) : i \in {j \in Ids : t[j] # NoRow}}

\* criteria: cls.id == i, cls.val == v, or true()
IdEq(i) == [col |-> "id", id |-> i, val |-> NoVal]
ValEq(v) == [col |-> "val", id |-> NoId, val |-> v]
AnyRow == [col |-> "any", id |-> NoId, val |-> NoVal]
Criteria == {IdEq(i) : i \in Ids} \cup {ValEq(v) : v \in Vals} \cup {AnyRow}

Sat(crit, e) ==
  CASE crit.col = "id" -> e.id = crit.id
    [] crit.col = "val" -> e.val = crit.val
    [] OTHER -> TRUE

\* the column lists filter is called with; <<>> is columns=None
ColumnLists == {<<>>, <<"id", "val">>, <<"val">>}

\* errors of the database layer that may strike any statement or commit
DbErrors == {"OperationalError"}

NoOp == [name |-> "none", id |-> NoId, val |-> NoVal, crit |-> AnyRow, cols |-> <<>>]
NoObj == [id |-> NoId, val |-> NoVal, state |-> "none"]
NoHist == [count |-> 0, old |-> NoRow, errs |-> {}]
RetNone == [kind |-> "none", ent |-> NoEnt, rows |-> {}, n |-> 0, err |-> "none"]
RetPending == [RetNone EXCEPT !.kind = "pending"]
RetEntity(e) == [RetNone EXCEPT !.kind = "entity", !.ent = e]
RetRows(r) == [RetNone EXCEPT !.kind = "rows", !.rows = r]
RetScalar(k) == [RetNone EXCEPT !.kind = "scalar", !.n = k]
RetRaised(e) == [RetNone EXCEPT !.kind = "raised", !.err = e]

Err(site, e) == [site |-> site, err |-> e]

(* ------------------------------- Init ----------------------------------- *)
\* lines 52-53: db = AsyncDatabaseSession(); db.init(), over any stored rows
InitDb(ser) ==
  /\ tn = [cls |-> Category, acc |-> <<>>, i |-> 0, pc |-> "off", out |-> <<>>]
  /\ db_session = 1
  /\ db_engine = 1
  /\ schema = TRUE
  /\ table \in [Ids -> Vals \cup {NoRow}]
  /\ view = table
  /\ identity_map = EmptyRows
  /\ seq = 1
  /\ inactive = FALSE
  /\ pc = [c \in Callers |-> "idle"]
  /\ op = [c \in Callers |-> NoOp]
  /\ obj = [c \in Callers |-> NoObj]
  /\ ret = [c \in Callers |-> RetPending]
  /\ hist = [c \in Callers |-> NoHist]
  /\ used = [c \in Callers |-> 0]
  /\ serialized = ser

Init == InitDb(TRUE)
InitConc == InitDb(FALSE)

InitName ==
  /\ tn \in {TnStart(name) : name \in TypeNames}
  /\ db_session = 1
  /\ db_engine = 1
  /\ schema = TRUE
  /\ table = EmptyRows
  /\ view = table
  /\ identity_map = EmptyRows
  /\ seq = 1
  /\ inactive = FALSE
  /\ pc = [c \in Callers |-> "idle"]
  /\ op = [c \in Callers |-> NoOp]
  /\ obj = [c \in Callers |-> NoObj]
  /\ ret = [c \in Callers |-> RetPending]
  /\ hist = [c \in Callers |-> NoHist]
  /\ used = [c \in Callers |-> 0]
  /\ serialized = TRUE

SpecName == InitName /\ [][NextName]_vars

(* ------------------------ AbstractClass: helpers ------------------------ *)
\* a caller may begin an operation when it is in none; under external
\* serialization, only when no caller is in one
CanStart(c) ==
  /\ pc[c] = "idle"
  /\ serialized => \A k \in Callers : pc[k] = "idle"

\* the error a statement on the session must raise in this state, or "none"
ForcedError ==
  IF inactive THEN "PendingRollbackError"
  ELSE IF ~schema THEN "ProgrammingError"
  ELSE "none"

\* the errors db.execute / db.commit / db.refresh may raise in this state
PossibleErrors == IF ForcedError # "none" THEN {ForcedError} ELSE DbErrors

\* the entity the session hands out for a fetched row: the loaded instance of
\* that identity when there is one, else a new instance of the row
Loaded(e) ==
  IF identity_map[e.id] # NoRow THEN Entity(e.id, identity_map[e.id]) ELSE e

\* the identity map after the rows `es` were handed out as entities
MapAfterLoad(es) ==
  [i \in Ids |-> IF Entity(i, view[i]) \in es /\ identity_map[i] = NoRow
                 THEN view[i] ELSE identity_map[i]]

\* a mutation of the select: the where clause is left out
Select_NoWhere(crit) == Rows(view)

\* select(cls).where(criteria) on the session: the fetched rows
Select(crit) == {e \in Rows(view) : Sat(crit, e)}

\* what get(criteria) may return: the first fetched row, whichever the
\* database yields first, as an entity; None when no row was fetched
GetResults(crit) ==
  IF Select(crit) = {} THEN {RetNone}
  ELSE {RetEntity(Loaded(e)) : e \in Select(crit)}

\* what count() returns
CountResult == Cardinality(Rows(view))

\* what was stored when operation `o` was called: the row count and the row of
\* o.id (recorded for serialized callers, for whom "before the call" is one
\* state, and the row also for an update), and the errors raised so far
HistAt(o, errs) ==
  [count |-> IF serialized THEN Cardinality(Rows(table)) ELSE 0,
   old |-> IF o.id \in Ids /\ (serialized \/ o.name = "update")
           THEN table[o.id] ELSE NoRow,
   errs |-> errs]

\* an operation that is one awaited statement: it is called and ends in one step
OneStep(c, o, r, errs) ==
  /\ op' = [op EXCEPT ![c] = o]
  /\ hist' = [hist EXCEPT ![c] = HistAt(o, errs)]
  /\ used' = [used EXCEPT ![c] = db_session]
  /\ pc' = [pc EXCEPT ![c] = "done"]
  /\ ret' = [ret EXCEPT ![c] = r]
  /\ UNCHANGED obj

\* the first awaited statement of an operation that commits afterwards
FirstStep(c, o, nextpc) ==
  /\ op' = [op EXCEPT ![c] = o]
  /\ hist' = [hist EXCEPT ![c] = HistAt(o, {})]
  /\ used' = [used EXCEPT ![c] = db_session]
  /\ pc' = [pc EXCEPT ![c] = nextpc]
  /\ UNCHANGED <<ret, obj>>

(* ------------------- AbstractClass: the statements --------------------- *)
\* a mutation of the update statement: the where clause is left out
AfterUpdate_NoWhere(rows, id, val) ==
  [i \in Ids |-> IF rows[i] # NoRow THEN val ELSE rows[i]]

\* lines 81-83: the rows after UPDATE ... WHERE id = id_ SET val
AfterUpdate(rows, id, val) ==
  [i \in Ids |-> IF i = id /\ rows[i] # NoRow THEN val ELSE rows[i]]

\* a mutation of the synchronization: synchronize_session=False
SyncFetch_Off(map, rows, id, val) == map

\* line 84: synchronize_session="fetch": the loaded entities the statement
\* matched take the new value
SyncFetch(map, rows, id, val) ==
  [i \in Ids |-> IF i = id /\ rows[i] # NoRow /\ map[i] # NoRow THEN val ELSE map[i]]

\* lines 103 and 108: the rows after DELETE ... WHERE id = id_
AfterDelete(rows, id) ==
  [i \in Ids |-> IF i = id THEN NoRow ELSE rows[i]]

\* lines 104 and 109: the session drops the loaded entities the statement deleted
SyncDelete(map, id) ==
  [i \in Ids |-> IF i = id THEN NoRow ELSE map[i]]

\* a mutation of the commit: nothing the transaction holds is made durable
Committed_Nothing(staged, durable) == durable

\* line 61: what db.commit() makes durable: all the session's transaction holds
Committed(staged, durable) == staged

\* a mutation of the propagation: the error is caught and None is returned
Raised_Swallowed(e) == RetNone

\* an error of an awaited call that no handler catches reaches the caller as it is
Raised(e) == RetRaised(e)

\* lines 91-93, 115-122: the query of get and filter
Query(crit, rel, cols) ==
  [crit |-> crit, cols |-> cols, options |-> IF rel THEN {"selectinload"} ELSE {}]

\* a mutation of the result: line 119, query.where(criteria), is left out
Scalars_NoWhere(q) ==
  IF q.cols = <<>> THEN {Loaded(e) : e \in Rows(view)}
  ELSE IF Head(q.cols) = "id" THEN {Entity(e.id, NoVal) : e \in Rows(view)}
  ELSE {Entity(NoId, e.val) : e \in Rows(view)}

\* lines 94, 123, 127, 132: the rows a select yields: entities, or with columns
\* the first column's values
Scalars(q) ==
  IF q.cols = <<>> THEN {Loaded(e) : e \in Select(q.crit)}
  ELSE IF Head(q.cols) = "id" THEN {Entity(e.id, NoVal) : e \in Select(q.crit)}
  ELSE {Entity(NoId, e.val) : e \in Select(q.crit)}

\* the identity map after the select was executed
MapAfter(q) == IF q.cols = <<>> THEN MapAfterLoad(Select(q.crit)) ELSE identity_map

(* ---------------------- AbstractClass: operations ----------------------- *)
\* lines 70-74 with 58-63: create builds object_, db.add(object_) and awaits
\* db.commit(): the flush inserts the row, taking the id from the sequence when
\* none was given; a failed flush or commit raises into commit()'s handler
Create(c, id, val) ==
  /\ CanStart(c)
  /\ id = NoId => seq <= MaxId
  /\ LET o == [NoOp EXCEPT !.name = "create", !.id = id, !.val = val]
         newid == IF id = NoId THEN seq ELSE id
         flushErr == IF ForcedError # "none" THEN ForcedError
                     ELSE IF view[newid] # NoRow THEN "IntegrityError"
                     ELSE "none"
         seqAfter == IF id = NoId /\ ForcedError = "none" THEN seq + 1 ELSE seq
     IN
     /\ op' = [op EXCEPT ![c] = o]
     /\ used' = [used EXCEPT ![c] = db_session]
     /\ seq' = seqAfter
     /\ \/ /\ flushErr = "none"
           /\ view' = [view EXCEPT ![newid] = val]
           /\ table' = Committed(view', table)
           /\ identity_map' = [identity_map EXCEPT ![newid] = val]
           /\ obj' = [obj EXCEPT ![c] = [id |-> newid, val |-> val, state |-> "persistent"]]
           /\ hist' = [hist EXCEPT ![c] = HistAt(o, {})]
           /\ pc' = [pc EXCEPT ![c] = "refresh"]
           /\ UNCHANGED <<inactive, ret>>
        \/ /\ \E e \in (IF flushErr # "none" THEN {flushErr} ELSE DbErrors) :
                hist' = [hist EXCEPT ![c] = HistAt(o, {Err("commit", e)})]
           /\ inactive' = TRUE
           /\ obj' = [obj EXCEPT ![c] = [id |-> id, val |-> val, state |-> "pending"]]
           /\ pc' = [pc EXCEPT ![c] = "rollback"]
           /\ UNCHANGED <<view, table, identity_map, ret>>
  /\ UNCHANGED <<tn, holderVars, schema, serialized>>

\* lines 58-63 after update and delete: await db.commit(); an exception goes to
\* the handler, which prints it
Commit(c) ==
  /\ pc[c] = "commit"
  /\ used' = [used EXCEPT ![c] = db_session]
  /\ \/ /\ ~inactive
        /\ table' = Committed(view, table)
        /\ pc' = [pc EXCEPT ![c] = "done"]
        /\ ret' = [ret EXCEPT ![c] = RetNone]
        /\ UNCHANGED <<inactive, hist>>
     \/ /\ \E e \in (IF inactive THEN {"PendingRollbackError"} ELSE DbErrors) :
             hist' = [hist EXCEPT ![c].errs = @ \cup {Err("commit", e)}]
        /\ inactive' = TRUE
        /\ pc' = [pc EXCEPT ![c] = "rollback"]
        /\ UNCHANGED <<table, ret>>
  /\ UNCHANGED <<tn, holderVars, schema, view, identity_map, seq, op, obj, serialized>>

\* line 64: await db.rollback() in the handler: the transaction's changes are
\* discarded, the added object is expunged, every loaded entity is expired;
\* the exception is not raised again
Rollback(c) ==
  /\ pc[c] = "rollback"
  /\ used' = [used EXCEPT ![c] = db_session]
  /\ view' = table
  /\ identity_map' = EmptyRows
  /\ inactive' = FALSE
  /\ obj' = [obj EXCEPT ![c].state = IF @ = "pending" THEN "transient" ELSE @]
  /\ IF op[c].name = "create"
     THEN pc' = [pc EXCEPT ![c] = "refresh"] /\ UNCHANGED ret
     ELSE pc' = [pc EXCEPT ![c] = "done"] /\ ret' = [ret EXCEPT ![c] = RetNone]
  /\ UNCHANGED <<tn, holderVars, schema, table, seq, op, hist, serialized>>

\* lines 66-68 and 75-76: await db.refresh(object_), then return object_; the
\* session refuses an instance that is not persistent in it
Refresh(c) ==
  /\ pc[c] = "refresh"
  /\ used' = [used EXCEPT ![c] = db_session]
  /\ pc' = [pc EXCEPT ![c] = "done"]
  /\ LET o == obj[c]
         errs == IF o.state # "persistent" THEN {"InvalidRequestError"}
                 ELSE IF ForcedError # "none" THEN {ForcedError}
                 ELSE IF view[o.id] = NoRow THEN DbErrors \cup {"InvalidRequestError"}
                 ELSE DbErrors
         canLoad == o.state = "persistent" /\ ForcedError = "none" /\ view[o.id] # NoRow
     IN
     \/ /\ canLoad
        /\ obj' = [obj EXCEPT ![c].val = view[o.id]]
        /\ identity_map' = [identity_map EXCEPT ![o.id] = view[o.id]]
        /\ ret' = [ret EXCEPT ![c] = RetEntity(Entity(o.id, view[o.id]))]
        /\ UNCHANGED hist
     \/ /\ \E e \in errs :
             /\ hist' = [hist EXCEPT ![c].errs = @ \cup {Err("refresh", e)}]
             /\ ret' = [ret EXCEPT ![c] = Raised(e)]
        /\ UNCHANGED <<obj, identity_map>>
  /\ UNCHANGED <<tn, holderVars, schema, table, view, seq, inactive, op, serialized>>

\* lines 78-86: update builds the statement and awaits db.execute(query)
Update(c, id, val) ==
  /\ CanStart(c)
  /\ LET o == [NoOp EXCEPT !.name = "update", !.id = id, !.val = val]
     IN
     \/ /\ ForcedError = "none"
        /\ view' = AfterUpdate(view, id, val)
        /\ identity_map' = SyncFetch(identity_map, view, id, val)
        /\ FirstStep(c, o, "commit")
     \/ /\ \E e \in PossibleErrors : OneStep(c, o, Raised(e), {Err("execute", e)})
        /\ UNCHANGED <<view, identity_map>>
  /\ UNCHANGED <<tn, holderVars, schema, table, seq, inactive, serialized>>

\* lines 101-104: delete_by_id builds the statement and awaits db.execute(query)
DeleteById(c, id) ==
  /\ CanStart(c)
  /\ LET o == [NoOp EXCEPT !.name = "delete_by_id", !.id = id]
     IN
     \/ /\ ForcedError = "none"
        /\ view' = AfterDelete(view, id)
        /\ identity_map' = SyncDelete(identity_map, id)
        /\ FirstStep(c, o, "commit")
     \/ /\ \E e \in PossibleErrors : OneStep(c, o, Raised(e), {Err("execute", e)})
        /\ UNCHANGED <<view, identity_map>>
  /\ UNCHANGED <<tn, holderVars, schema, table, seq, inactive, serialized>>

\* lines 107-109: delete on an instance: the same statement with self.id
Delete(c, self_id) ==
  /\ CanStart(c)
  /\ LET o == [NoOp EXCEPT !.name = "delete", !.id = self_id]
     IN
     \/ /\ ForcedError = "none"
        /\ view' = AfterDelete(view, self_id)
        /\ identity_map' = SyncDelete(identity_map, self_id)
        /\ FirstStep(c, o, "commit")
     \/ /\ \E e \in PossibleErrors : OneStep(c, o, Raised(e), {Err("execute", e)})
        /\ UNCHANGED <<view, identity_map>>
  /\ UNCHANGED <<tn, holderVars, schema, table, seq, inactive, serialized>>

\* lines 89-94: get: .scalar() is the first fetched row, in no stated order, or None
Get(c, crit, rel) ==
  /\ CanStart(c)
  /\ LET o == [NoOp EXCEPT !.name = "get", !.crit = crit]
         q == Query(crit, rel, <<>>)
     IN
     \/ /\ ForcedError = "none"
        /\ \E r \in GetResults(q.crit) :
             /\ OneStep(c, o, r, {})
             /\ identity_map' = IF r.kind = "entity"
                                THEN MapAfterLoad({Entity(r.ent.id, view[r.ent.id])})
                                ELSE identity_map
     \/ /\ \E e \in PossibleErrors : OneStep(c, o, Raised(e), {Err("execute", e)})
        /\ UNCHANGED identity_map
  /\ UNCHANGED <<tn, holderVars, schema, table, view, seq, inactive, serialized>>

\* lines 96-99: count
Count(c) ==
  /\ CanStart(c)
  /\ LET o == [NoOp EXCEPT !.name = "count"]
     IN
     \/ /\ ForcedError = "none"
        /\ OneStep(c, o, RetScalar(CountResult), {})
     \/ \E e \in PossibleErrors : OneStep(c, o, Raised(e), {Err("execute", e)})
  /\ UNCHANGED <<tn, holderVars, storeVars, serialized>>

\* lines 112-123: filter
Filter(c, crit, rel, cols) ==
  /\ CanStart(c)
  /\ LET o == [NoOp EXCEPT !.name = "filter", !.crit = crit, !.cols = cols]
         q == Query(crit, rel, cols)
     IN
     \/ /\ ForcedError = "none"
        /\ OneStep(c, o, RetRows(Scalars(q)), {})
        /\ identity_map' = MapAfter(q)
     \/ /\ \E e \in PossibleErrors : OneStep(c, o, Raised(e), {Err("execute", e)})
        /\ UNCHANGED identity_map
  /\ UNCHANGED <<tn, holderVars, schema, table, view, seq, inactive, serialized>>

\* lines 125-127: all
All(c) ==
  /\ CanStart(c)
  /\ LET o == [NoOp EXCEPT !.name = "all"]
         q == Query(AnyRow, FALSE, <<>>)
     IN
     \/ /\ ForcedError = "none"
        /\ OneStep(c, o, RetRows(Scalars(q)), {})
        /\ identity_map' = MapAfter(q)
     \/ /\ \E e \in PossibleErrors : OneStep(c, o, Raised(e), {Err("execute", e)})
        /\ UNCHANGED identity_map
  /\ UNCHANGED <<tn, holderVars, schema, table, view, seq, inactive, serialized>>

\* lines 129-132: run_query on a select of the entity with the given criteria
RunQuery(c, crit) ==
  /\ CanStart(c)
  /\ LET o == [NoOp EXCEPT !.name = "run_query", !.crit = crit]
         q == Query(crit, FALSE, <<>>)
     IN
     \/ /\ ForcedError = "none"
        /\ OneStep(c, o, RetRows(Scalars(q)), {})
        /\ identity_map' = MapAfter(q)
     \/ /\ \E e \in PossibleErrors : OneStep(c, o, Raised(e), {Err("execute", e)})
        /\ UNCHANGED identity_map
  /\ UNCHANGED <<tn, holderVars, schema, table, view, seq, inactive, serialized>>

\* lines 134-137: query_count on a select of count() with the given criteria
QueryCount(c, crit) ==
  /\ CanStart(c)
  /\ LET o == [NoOp EXCEPT !.name = "query_count", !.crit = crit]
     IN
     \/ /\ ForcedError = "none"
        /\ OneStep(c, o, RetScalar(Cardinality(Select(crit))), {})
     \/ \E e \in PossibleErrors : OneStep(c, o, Raised(e), {Err("execute", e)})
  /\ UNCHANGED <<tn, holderVars, storeVars, serialized>>

\* the caller takes the result; it is in no operation again
Return(c) ==
  /\ pc[c] = "done"
  /\ pc' = [pc EXCEPT ![c] = "idle"]
  /\ op' = [op EXCEPT ![c] = NoOp]
  /\ obj' = [obj EXCEPT ![c] = NoObj]
  /\ ret' = [ret EXCEPT ![c] = RetPending]
  /\ hist' = [hist EXCEPT ![c] = NoHist]
  /\ used' = [used EXCEPT ![c] = 0]
  /\ UNCHANGED <<tn, holderVars, storeVars, serialized>>

Next ==
  \E c \in Callers :
    \/ \E id \in Ids \cup {NoId}, val \in Vals : Create(c, id, val)
    \/ Commit(c)
    \/ Rollback(c)
    \/ Refresh(c)
    \/ \E id \in Ids \cup {NoId}, val \in Vals : Update(c, id, val)
    \/ \E id \in Ids \cup {NoId} : DeleteById(c, id)
    \/ \E id \in Ids \cup {NoId} : Delete(c, id)
    \/ \E crit \in Criteria, rel \in BOOLEAN : Get(c, crit, rel)
    \/ Count(c)
    \/ \E crit \in Criteria, rel \in BOOLEAN, cols \in ColumnLists : Filter(c, crit, rel, cols)
    \/ All(c)
    \/ \E crit \in Criteria : RunQuery(c, crit)
    \/ \E crit \in Criteria : QueryCount(c, crit)
    \/ Return(c)

Spec == Init /\ [][Next]_vars
\* two callers that are not serialized: create and update, the operations that
\* stage and commit changes, interleaved call by call on the one session
NextConc ==
  \E c \in Callers :
    \/ \E id \in Ids, val \in Vals : Create(c, id, val)
    \/ Commit(c)
    \/ Rollback(c)
    \/ Refresh(c)
    \/ \E id \in Ids, val \in Vals : Update(c, id, val)
    \/ Return(c)

SpecConc == InitConc /\ [][NextConc]_vars

(* ----------------------- AsyncDatabaseSession --------------------------- *)
\* lines 36-38: init() binds a new engine and a new session made from it; the
\* session that was bound before is dropped with what its transaction held
HolderInit ==
  /\ db_session < MaxInit
  /\ db_engine' = db_engine + 1
  /\ db_session' = db_session + 1
  /\ view' = table
  /\ identity_map' = EmptyRows
  /\ inactive' = FALSE
  /\ obj' = [c \in Callers |->
               [obj[c] EXCEPT !.state = IF @ = "none" THEN @ ELSE "detached"]]
  /\ UNCHANGED <<tn, schema, table, seq, pc, op, ret, hist, used, serialized>>

\* a mutation of refresh: it makes itself a new session from the engine
HolderRefresh_NewSession(i) ==
  /\ identity_map[i] # NoRow
  /\ db_session < MaxInit
  /\ db_session' = db_session + 1
  /\ UNCHANGED <<tn, db_engine, storeVars, callerVars, serialized>>

\* lines 40-41: refresh(model) on a loaded entity: its attributes are read
\* again from its row; an error is raised to the caller of refresh
HolderRefresh(i) ==
  /\ identity_map[i] # NoRow
  /\ identity_map' = IF ForcedError = "none" /\ view[i] # NoRow
                     THEN [identity_map EXCEPT ![i] = view[i]]
                     ELSE identity_map
  /\ UNCHANGED <<tn, holderVars, schema, table, view, seq, inactive, callerVars, serialized>>

\* lines 43-45: create_all() creates the tables that do not exist
HolderCreateAll ==
  /\ schema' = TRUE
  /\ UNCHANGED <<tn, holderVars, table, view, identity_map, seq, inactive, callerVars,
                 serialized>>

\* lines 47-49: drop_all() drops the tables, their rows and their sequences
HolderDropAll ==
  /\ schema' = FALSE
  /\ table' = EmptyRows
  /\ view' = EmptyRows
  /\ seq' = 1
  /\ UNCHANGED <<tn, holderVars, identity_map, inactive, callerVars, serialized>>

\* lines 33-34: any other attribute is the session's: db.commit(), db.rollback()
HolderGetattr(name) ==
  /\ CASE name = "commit" ->
            /\ table' = IF inactive THEN table ELSE Committed(view, table)
            /\ UNCHANGED <<view, identity_map, inactive>>
       [] name = "rollback" ->
            /\ view' = table
            /\ identity_map' = EmptyRows
            /\ inactive' = FALSE
            /\ UNCHANGED table
  /\ UNCHANGED <<tn, holderVars, schema, seq, callerVars, serialized>>

\* the calls on the holder, among entity operations of serialized callers
NextHolder ==
  \/ \E c \in Callers :
       \/ \E id \in Ids \cup {NoId}, val \in Vals : Create(c, id, val)
       \/ Commit(c)
       \/ Rollback(c)
       \/ Refresh(c)
       \/ \E id \in Ids, val \in Vals : Update(c, id, val)
       \/ \E id \in Ids : DeleteById(c, id)
       \/ \E crit \in Criteria : Get(c, crit, FALSE)
       \/ Count(c)
       \/ Return(c)
  \/ HolderInit
  \/ \E i \in Ids : HolderRefresh(i)
  \/ HolderCreateAll
  \/ HolderDropAll
  \/ \E name \in {"commit", "rollback"} : HolderGetattr(name)

SpecHolder == Init /\ [][NextHolder]_vars

(* ------------------------------ claim C1 -------------------------------- *)
\* the derivation as the specification words it: an underscore before each
\* capital after the first character, lower-cased, then pluralized
RECURSIVE UnderscoreSplit(_, _)
UnderscoreSplit(name, k) ==
  IF k > Len(name) THEN <<>>
  ELSE (IF k > 1 /\ name[k] \in UpperChars THEN <<"_", name[k]>> ELSE <<name[k]>>)
       \o UnderscoreSplit(name, k + 1)

Lowered(s) == [k \in 1 .. Len(s) |-> ToLowerChar(s[k])]

Pluralized(s) ==
  IF s[Len(s)] = "y" THEN [k \in 1 .. Len(s) + 2 |->
                              IF k < Len(s) THEN s[k]
                              ELSE IF k = Len(s) THEN "i"
                              ELSE IF k = Len(s) + 1 THEN "e" ELSE "s"]
  ELSE [k \in 1 .. Len(s) + 1 |-> IF k <= Len(s) THEN s[k] ELSE "s"]

DerivedName(name) == Pluralized(Lowered(UnderscoreSplit(name, 1)))

\* C1: once __tablename__ has run on a type name, its result is the name with an
\* underscore before each capital after the first character, lower-cased and
\* pluralized ("y" -> "ies", otherwise + "s"); UserAccount gives user_accounts
\* and Category gives categories.
C1_TableName ==
  tn.pc = "done" =>
    /\ tn.out = DerivedName(tn.cls)
    /\ tn.cls = UserAccount =>
         tn.out = <<"u", "s", "e", "r", "_", "a", "c", "c", "o", "u", "n", "t", "s">>
    /\ tn.cls = Category =>
         tn.out = <<"c", "a", "t", "e", "g", "o", "r", "i", "e", "s">>

\* a name with an inner capital and a final "y" has been derived
C1_Witness ==
  /\ tn.pc = "done"
  /\ \E k \in 2 .. Len(tn.cls) : tn.cls[k] \in UpperChars
  /\ tn.cls[Len(tn.cls)] \in {"y", "Y"}
  /\ Len(tn.out) = Len(tn.cls) + 3

(* --------------------------- claims C2 - C8 ----------------------------- *)
\* caller c has finished operation `name` and holds its result
Done(c, name) == pc[c] = "done" /\ op[c].name = name

\* the commit of c's operation raised
CommitRaised(c) == \E e \in hist[c].errs : e.site = "commit"

\* C2 as stated: an operation (create, update, delete_by_id, delete) whose
\* commit raised ends with the session rolled back, the change not stored, and
\* no error raised to its caller.
C2_CommitFailureReturnsNormally ==
  \A c \in Callers :
    (/\ pc[c] = "done"
     /\ op[c].name \in {"create", "update", "delete_by_id", "delete"}
     /\ CommitRaised(c))
    => /\ view = table
       /\ ~inactive
       /\ Cardinality(Rows(table)) = hist[c].count
       /\ ret[c].kind # "raised"

\* C3: a create that returned an entity returned one with an assigned id, and
\* a get for that id then returns exactly that entity, equal in all fields.
C3_CreateThenGet ==
  \A c \in Callers :
    (Done(c, "create") /\ ret[c].kind = "entity")
    => /\ ret[c].ent.id \in Ids
       /\ ret[c].ent.val = op[c].val
       /\ GetResults(IdEq(ret[c].ent.id)) = {ret[c]}

\* a create without an id has returned its entity, the id taken from the
\* sequence, while another row is stored too
C3_Witness ==
  \E c \in Callers :
    /\ Done(c, "create")
    /\ ret[c].kind = "entity"
    /\ op[c].id = NoId
    /\ ret[c].ent.id \in Ids
    /\ Cardinality(Rows(table)) > 1

\* C4 as stated: after delete_by_id(id) has returned, a get for the id returns
\* None and count() is one less than before the call if the row existed, and
\* the same otherwise.
C4_DeleteThenGetAndCount ==
  \A c \in Callers :
    (Done(c, "delete_by_id") /\ ret[c].kind # "raised")
    => /\ GetResults(IdEq(op[c].id)) = {RetNone}
       /\ CountResult = hist[c].count - (IF hist[c].old # NoRow THEN 1 ELSE 0)

\* C5: after an update of an existing row whose commit succeeded, a get for
\* the id returns the entity with the updated field value.
C5_UpdateThenGet ==
  \A c \in Callers :
    (Done(c, "update") /\ hist[c].old # NoRow /\ hist[c].errs = {})
    => GetResults(IdEq(op[c].id)) = {RetEntity(Entity(op[c].id, op[c].val))}

\* an update has changed the value of a row whose entity the session had loaded
C5_Witness ==
  \E c \in Callers :
    /\ Done(c, "update")
    /\ hist[c].errs = {}
    /\ hist[c].old \notin {NoRow, op[c].val}
    /\ identity_map[op[c].id] # NoRow
    /\ table[op[c].id] = op[c].val

\* C6: every step of an update whose id matched no stored row leaves the
\* stored rows and the session's view of them as they were, and the update
\* raises nothing but an error the database layer raised on the statement.
C6_UpdateMissingIsNoOp ==
  [][\A c \in Callers :
       (op'[c].name = "update" /\ hist'[c].old = NoRow)
       => /\ table' = table
          /\ view' = view
          /\ Cardinality(Rows(table')) = hist'[c].count
          /\ pc'[c] = "done" =>
               IF \E e \in hist'[c].errs : e.site = "execute"
               THEN ret'[c].kind = "raised"
               ELSE ret'[c] = RetNone]_vars

\* an update of an id that matched none of the stored rows has returned
C6_Witness ==
  \E c \in Callers :
    /\ Done(c, "update")
    /\ op[c].id \in Ids
    /\ hist[c].old = NoRow
    /\ ret[c] = RetNone
    /\ Rows(table) # {}
    /\ \E i \in Ids : table[i] \notin {NoRow, op[c].val}

\* C7: filter(criteria) without columns yields exactly the stored rows that
\* satisfy the criteria, as a set: none missing, none more.
C7_FilterExact ==
  \A c \in Callers :
    (Done(c, "filter") /\ op[c].cols = <<>> /\ ret[c].kind = "rows")
    => ret[c].rows =
         {Entity(i, table[i]) :
            i \in {j \in Ids : /\ table[j] # NoRow
                               /\ op[c].crit.col = "id" => j = op[c].crit.id
                               /\ op[c].crit.col = "val" => table[j] = op[c].crit.val}}

\* a filter has yielded some of the stored rows and left out others
C7_Witness ==
  \E c \in Callers :
    /\ Done(c, "filter")
    /\ op[c].cols = <<>>
    /\ ret[c].kind = "rows"
    /\ ret[c].rows # {}
    /\ Cardinality(ret[c].rows) < Cardinality(Rows(table))

ReadOps == {"get", "filter", "count", "run_query", "all", "query_count"}
DeleteOps == {"delete_by_id", "delete"}

\* C8 as stated: get, filter, count, delete_by_id, delete and run_query hand
\* every error raised during the operation to the caller, unmodified.
C8_AllErrorsPropagate ==
  \A c \in Callers :
    (pc[c] = "done" /\ op[c].name \in
       {"get", "filter", "count", "delete_by_id", "delete", "run_query"})
    => \A e \in hist[c].errs : ret[c].kind = "raised" /\ ret[c].err = e.err

\* C8 as amended: get, filter, count, run_query (and all, query_count) raise
\* to the caller exactly the error their statement raised; delete_by_id and
\* delete do so for an error of their statement, while an error of their
\* commit is caught and they return None.
C8_ErrorsPropagateExceptCommit ==
  \A c \in Callers :
    pc[c] = "done" =>
      /\ op[c].name \in ReadOps =>
           /\ \A e \in hist[c].errs : ret[c].kind = "raised" /\ ret[c].err = e.err
           /\ ret[c].kind = "raised" => hist[c].errs = {Err("execute", ret[c].err)}
      /\ op[c].name \in DeleteOps =>
           /\ \A e \in hist[c].errs :
                IF e.site = "execute"
                THEN ret[c].kind = "raised" /\ ret[c].err = e.err
                ELSE e.site = "commit" /\ ret[c] = RetNone
           /\ ret[c].kind = "raised" => hist[c].errs = {Err("execute", ret[c].err)}

\* a delete_by_id whose commit raised has returned None
C8_Witness ==
  \E c \in Callers :
    /\ Done(c, "delete_by_id")
    /\ CommitRaised(c)
    /\ ret[c] = RetNone

(* ------------------------------ claim C10 ------------------------------- *)
\* caller k has executed its update of a stored row and not yet committed it
Staged(k) ==
  /\ pc[k] = "commit"
  /\ op[k].name = "update"
  /\ hist[k].old \notin {NoRow, op[k].val}
  /\ view[op[k].id] = op[k].val
  /\ table[op[k].id] # op[k].val

\* C10: while one caller's update is staged and not committed, a successful
\* commit by the other caller makes that update durable, and the rollback
\* after the other caller's failed commit discards it; a caller whose staged
\* update was discarded still returns None from its own commit, the update not
\* stored.
C10_InterleavedTransactions ==
  [][\A c, k \in Callers :
       /\ (c # k /\ Staged(k))
          => /\ (pc[c] \in {"idle", "commit"} /\ pc'[c] \in {"refresh", "done"}
                 /\ hist'[c].errs = {} /\ op'[c].id # op[k].id)
                => table'[op[k].id] = op[k].val
             /\ (pc[c] = "rollback" /\ pc'[c] # "rollback")
                => /\ view'[op[k].id] = table[op[k].id]
                   /\ table' = table
                   /\ pc'[k] = "commit"
       /\ (/\ pc[k] = "commit" /\ op[k].name = "update" /\ pc'[k] = "done"
           /\ hist[k].old # NoRow /\ view[op[k].id] # op[k].val)
          => /\ ret'[k] = RetNone
             /\ table'[op[k].id] # op[k].val]_vars

\* the update of one caller is durable while that caller has not committed it
C10_Witness ==
  \E c, k \in Callers :
    /\ c # k
    /\ pc[k] = "commit"
    /\ op[k].name = "update"
    /\ hist[k].old \notin {NoRow, op[k].val}
    /\ table[op[k].id] = op[k].val
    /\ pc[c] \in {"refresh", "done"}
    /\ op[c].id # op[k].id
    /\ hist[c].errs = {}

(* ------------------------------ claim C9 -------------------------------- *)
\* C9 as stated: the session and the engine bound at startup are the ones
\* bound in every reachable state.
C9_NeverReplaced == db_session = 1 /\ db_engine = 1

\* C9 as amended: a step replaces the session or the engine only if it is a
\* call of init(); no other call on the holder and no step of an entity
\* operation does, and every call an entity operation makes runs on the
\* session bound at that time.
C9_ReplacedOnlyByInit ==
  [][/\ (db_session' # db_session \/ db_engine' # db_engine) => HolderInit
     /\ \A c \in Callers :
          (pc'[c] # pc[c] /\ pc'[c] # "idle") => used'[c] = db_session]_vars

\* the tables were dropped through the holder and an entity operation has
\* run, on the session and engine bound at startup
C9_Witness ==
  /\ ~schema
  /\ db_session = 1
  /\ db_engine = 1
  /\ \E c \in Callers : pc[c] = "done" /\ used[c] = db_session /\ ret[c].kind = "raised"

====
